---- MODULE Spec2Model ----
(***************************************************************************)
(* Progress accounting of the Concat merge scope and the Stream wiring     *)
(* primitives of timely-dataflow (src/example/concat.rs,                   *)
(* src/example/stream.rs).                                                 *)
(*                                                                         *)
(* A computation has a build phase, in which streams are concatenated      *)
(* (scopes added, edges recorded, observers registered), and a run phase,  *)
(* in which messages are sent on the leaf streams and the driver polls the *)
(* merge scopes with pull_internal_progress.                               *)
(*                                                                         *)
(* The hello example of the communication crate                            *)
(* (communication/examples/hello.rs) is modelled beside it: its workers    *)
(* and the transport between them have their own variables and their own   *)
(* specification, HelloSpec.                                               *)
(***************************************************************************)
EXTENDS Integers, Sequences, FiniteSets, TLC

\* ------------------------------------------------------------------ bounds
MaxSends == 2       \* messages sent on leaf streams in one run
MaxScopes == 1      \* merge scopes added in one build phase
MaxCalls == 2       \* build calls in one build phase of the wiring specification
MaxUpdates == 3     \* deltas applied to the counter maps of the counter-map specification
Peers == 2          \* workers of the hello example (allocator.peers())

Timestamps == {0, 1}    \* two distinct values of the timestamp type
Graphs == {1, 2}        \* the graph cells streams may refer to

VARIABLES
    graphs,             \* graph cell -> [scopes, edges]
    streams,            \* the Stream values alive: [name, ports, graph]
    ports,              \* OutputPort id -> sequence of registered observers
    maps,               \* Rc<RefCell<CountMap>> id -> CountMap
    messages_consumed,  \* graph -> scope -> the driver's consumed report per input
    messages_produced,  \* graph -> scope -> the driver's produced report per output
    delivered,          \* history: port -> timestamp -> messages sent through it
    clean,              \* history: scopes pulled with no send to them since
    pc,                 \* "build", "run" or "panicked"
    last,               \* the last call: [op, args, stream, log, ret, n]
    cells,              \* the borrows of the shared cells: [held, failed, requests]
    applied,            \* history: the update calls applied directly to counter maps
    workers,            \* hello: worker -> [pc, i, received]
    senders,            \* hello: worker -> peer -> [sent, done, buffer]
    channels,           \* hello: source -> target -> messages in flight
    receivers           \* hello: worker -> messages arrived, not yet received

\* The dataflow state and the state of the hello example.
flow == <<graphs, streams, ports, maps, messages_consumed, messages_produced,
          delivered, clean, pc, last, cells>>
hello == <<workers, senders, channels, receivers>>

vars == <<flow, applied, hello>>

\* Bind(e, F) is F(e), with e evaluated once however often F uses it.
Bind(e, F(_)) == CHOOSE y \in {F(x) : x \in {e}} : TRUE

\* ------------------------------------------------------------- addresses
ScopeOutput(index, port) == [kind |-> "ScopeOutput", scope |-> index, port |-> port]
ScopeInput(index, port) == [kind |-> "ScopeInput", scope |-> index, port |-> port]

\* ------------------------------------------------------------- CountMap
EmptyMap == [t \in {} |-> 0]

\* CountMap::update: merge an additive delta; an entry whose net is zero is absent.
update(m, key, val) ==
    IF key \in DOMAIN m
    THEN IF m[key] + val = 0
         THEN [k \in DOMAIN m \ {key} |-> m[k]]
         ELSE [m EXCEPT ![key] = @ + val]
    ELSE IF val = 0
         THEN m
         ELSE [k \in DOMAIN m \cup {key} |-> IF k = key THEN val ELSE m[k]]

\* CountMap::pop: remove and return one entry, or None. Which entry is
\* unspecified; a drain's result does not depend on the order.
pop(m) ==
    IF DOMAIN m = {}
    THEN [some |-> FALSE, key |-> 0, val |-> 0, rest |-> m]
    ELSE LET k == CHOOSE x \in DOMAIN m : TRUE
         IN  [some |-> TRUE, key |-> k, val |-> m[k],
              rest |-> [x \in DOMAIN m \ {k} |-> m[x]]]

\* The count a map holds at a timestamp (absent means zero).
Count(m, t) == IF t \in DOMAIN m THEN m[t] ELSE 0

\* ------------------------------------------------------------- RefCell
\* The shared cells: the RefCell a stream's graph field refers to and the
\* Rc<RefCell<CountMap>> shared by a merge scope and an observer.
GraphCell(g) == [kind |-> "graph", id |-> g]
MapCell(id) == [kind |-> "counts", id |-> id]

\* No cell borrowed; requests counts the borrow_mut calls of the current call.
NoBorrow == [held |-> {}, failed |-> FALSE, requests |-> 0]

\* RefCell::borrow_mut: fails when the cell is already borrowed.
borrow_mut(c, cell) ==
    IF cell \in c.held
    THEN [c EXCEPT !.failed = TRUE, !.requests = @ + 1]
    ELSE [c EXCEPT !.held = @ \cup {cell}, !.requests = @ + 1]

\* The RefMut goes out of scope.
drop(c, cell) == [c EXCEPT !.held = @ \ {cell}]

\* A borrow taken by a temporary of one statement: borrowed, used, dropped.
borrow_for_statement(c, cell) == drop(borrow_mut(c, cell), cell)

\* ------------------------------------------------------------- Graph
\* Graph::add_scope: append, return the new scope's index (0-based).
add_scope(G, scope) ==
    [graph |-> [G EXCEPT !.scopes = Append(@, scope)], index |-> Len(G.scopes)]

\* Graph::connect: record one directed edge.
connect(G, source, target) ==
    [G EXCEPT !.edges = Append(@, [source |-> source, target |-> target])]

\* OutputPort::add_observer
add_observer(port, observer) == Append(port, observer)

\* ObserverHelper::new(observer, counts)
ObserverHelper(observer, counts) == [observer |-> observer, counts |-> counts]

\* ------------------------------------------------------------- Stream
\* Stream::new
StreamNew(source, output, graph) == [name |-> source, ports |-> output, graph |-> graph]

\* Variant that keeps the source of the stream it is derived from.
clone_with_same_source(self, source, targets) == StreamNew(self.name, targets, self.graph)

\* Stream::clone_with
clone_with(self, source, targets) == StreamNew(source, targets, self.graph)

\* Variant that registers the observer twice.
connect_to_twice(w, s, target, observer) ==
    LET self == w.streams[s]
    IN  [w EXCEPT !.graphs[self.graph] = connect(@, self.name, target),
                  !.ports[self.ports] = add_observer(add_observer(@, observer), observer),
                  !.log = @ \o << [op |-> "connect", graph |-> self.graph,
                                   source |-> self.name, target |-> target],
                                  [op |-> "add_observer", port |-> self.ports,
                                   observer |-> observer] >>]

\* Variant that registers the observer without recording the edge.
connect_to_unrecorded(w, s, target, observer) ==
    LET self == w.streams[s]
    IN  [w EXCEPT !.ports[self.ports] = add_observer(@, observer),
                  !.log = @ \o << [op |-> "add_observer", port |-> self.ports,
                                   observer |-> observer] >>]

\* Stream::connect_to on the world w = [graphs, streams, ports, maps, log]; s
\* is the index of the stream in w.streams. The two operations it performs
\* are noted in w.log.
connect_to(w, s, target, observer) ==
    LET self == w.streams[s]
    IN  [w EXCEPT !.cells = borrow_for_statement(@, GraphCell(self.graph)),
                  !.graphs[self.graph] = connect(@, self.name, target),
                  !.ports[self.ports] = add_observer(@, observer),
                  !.log = @ \o << [op |-> "connect", graph |-> self.graph,
                                   source |-> self.name, target |-> target],
                                  [op |-> "add_observer", port |-> self.ports,
                                   observer |-> observer] >>]

\* ------------------------------------------------------------- ConcatScope
ConcatScope(consumed) == [name |-> "Concat", consumed |-> consumed]
InputScope == [name |-> "Input", consumed |-> <<>>]

inputs(scope) == Len(scope.consumed)
outputs(scope) == 1


\* Variant of the enumeration that visits the first counter map only.
Enumerate_First(consumed) ==
    [i \in 1..(IF Len(consumed) > 0 THEN 1 ELSE 0) |->
        [index |-> i - 1, updates |-> consumed[i]]]

\* line 62: self.consumed.iter().enumerate()
Enumerate(consumed) == [i \in 1..Len(consumed) |-> [index |-> i - 1, updates |-> consumed[i]]]

\* Variants of the loop body with one of its two updates wrong: the produced
\* report is not updated, the consumed report is not updated, the consumed
\* delta is always booked on input 0.
LoopBody_NoProduced(index, key, val, mc, mp) ==
    [mc |-> [mc EXCEPT ![index + 1] = update(@, key, val)], mp |-> mp]

LoopBody_NoConsumed(index, key, val, mc, mp) ==
    [mc |-> mc, mp |-> [mp EXCEPT ![1] = update(@, key, val)]]

LoopBody_FirstInput(index, key, val, mc, mp) ==
    [mc |-> [mc EXCEPT ![1] = update(@, key, val)],
     mp |-> [mp EXCEPT ![1] = update(@, key, val)]]

\* Variant that mirrors positive deltas only.
LoopBody_PositiveOnly(index, key, val, mc, mp) ==
    IF val > 0
    THEN [mc |-> [mc EXCEPT ![index + 1] = update(@, key, val)],
          mp |-> [mp EXCEPT ![1] = update(@, key, val)]]
    ELSE [mc |-> mc, mp |-> mp]

\* lines 64-65: mirror one drained (key, val) into the two reports.
LoopBody(index, key, val, mc, mp) ==
    [mc |-> [mc EXCEPT ![index + 1] = update(@, key, val)],
     mp |-> [mp EXCEPT ![1] = update(@, key, val)]]

\* Variant of the drain that pops at most one entry: if let for while let.
IfLetSome(updates, index, mc, mp, cell, c) ==
    Bind(pop(updates), LAMBDA p :
        IF ~p.some
        THEN [updates |-> p.rest, mc |-> mc, mp |-> mp, n |-> 0,
              cells |-> borrow_for_statement(c, cell)]
        ELSE Bind(LoopBody(index, p.key, p.val, mc, mp), LAMBDA b :
                 [updates |-> p.rest, mc |-> b.mc, mp |-> b.mp, n |-> 1,
                  cells |-> borrow_for_statement(c, cell)]))

\* lines 63-66: while let Some((key, val)) = updates.borrow_mut().pop() { ... }
\* n counts the entries popped. The RefMut of the scrutinee borrows cell, the
\* cell of updates, in c; it lives to the end of the iteration, whose body
\* touches mc and mp only.
RECURSIVE WhileLetSome(_, _, _, _, _, _)
WhileLetSome(updates, index, mc, mp, cell, c) ==
    Bind(pop(updates), LAMBDA p :
        IF ~p.some
        THEN [updates |-> p.rest, mc |-> mc, mp |-> mp, n |-> 0,
              cells |-> drop(borrow_mut(c, cell), cell)]
        ELSE Bind(LoopBody(index, p.key, p.val, mc, mp), LAMBDA b :
                 [WhileLetSome(p.rest, index, b.mc, b.mp, cell,
                               drop(borrow_mut(c, cell), cell))
                     EXCEPT !.n = @ + 1]))

\* lines 62-67: the for loop over the enumerated counter maps; heap holds the
\* shared cells.
RECURSIVE ForUpdates(_, _, _, _, _, _)
ForUpdates(items, i, heap, mc, mp, c) ==
    IF i > Len(items)
    THEN [maps |-> heap, mc |-> mc, mp |-> mp, n |-> 0, cells |-> c]
    ELSE Bind(WhileLetSome(heap[items[i].updates], items[i].index, mc, mp,
                           MapCell(items[i].updates), c), LAMBDA d :
             [ForUpdates(items, i + 1, [heap EXCEPT ![items[i].updates] = d.updates],
                         d.mc, d.mp, d.cells)
                 EXCEPT !.n = @ + d.n])

\* Variant of the call that returns whether it drained anything.
pull_returns_drained(self, heap, mc, mp, c) ==
    Bind(ForUpdates(Enumerate(self.consumed), 1, heap, mc, mp, c), LAMBDA r :
        [maps |-> r.maps, mc |-> r.mc, mp |-> r.mp, n |-> r.n, ret |-> r.n > 0,
         cells |-> r.cells])

\* ConcatScope::pull_internal_progress (lines 58-70)
pull_internal_progress(self, heap, mc, mp, c) ==
    Bind(ForUpdates(Enumerate(self.consumed), 1, heap, mc, mp, c), LAMBDA r :
        [maps |-> r.maps, mc |-> r.mc, mp |-> r.mp, n |-> r.n, ret |-> FALSE,
         cells |-> r.cells])

\* ------------------------------------------------------------- concat
\* Variant that allocates one counter map too many.
NewCountMaps_OneMore(base, n) == [i \in 1..(n + 1) |-> base + i]

\* lines 36-37 (and 18-19): one fresh shared CountMap per input; the cells'
\* ids follow those already on the heap.
NewCountMaps(base, n) == [i \in 1..n |-> base + i]

\* lines 41-43: connect stream id of the vector to input id of the new scope.
RECURSIVE ConnectAll(_, _, _, _, _, _)

\* Variant that targets the input after the one the observer counts for.
ConnectAll_NextPort(w, self, id, index, merged, consumed) ==
    IF id >= Len(self)
    THEN w
    ELSE ConnectAll(connect_to(w, self[id + 1], ScopeInput(index, id + 1),
                               ObserverHelper(merged, consumed[id + 1])),
                    self, id + 1, index, merged, consumed)

ConnectAll(w, self, id, index, merged, consumed) ==
    IF id >= Len(self)
    THEN w
    ELSE ConnectAll(connect_to(w, self[id + 1], ScopeInput(index, id),
                               ObserverHelper(merged, consumed[id + 1])),
                    self, id + 1, index, merged, consumed)

\* Variant of concatenate that returns quietly when given no stream.
concatenate_quiet(w, self) ==
    IF Len(self) = 0
    THEN [panic |-> FALSE, w |-> w, ret |-> 0]
    ELSE LET merged == Len(w.ports) + 1
             consumed == NewCountMaps(Len(w.maps), Len(self))
             w1 == [w EXCEPT !.ports = Append(@, <<>>),
                             !.maps = @ \o [i \in 1..Len(consumed) |-> EmptyMap]]
             g == w.streams[self[1]].graph
             added == add_scope(w1.graphs[g], ConcatScope(consumed))
             index == added.index
             w2 == [w1 EXCEPT !.cells = borrow_for_statement(@, GraphCell(g)),
                              !.graphs[g] = added.graph,
                              !.log = Append(@, [op |-> "add_scope", graph |-> g,
                                                 index |-> index])]
             w3 == ConnectAll(w2, self, 0, index, merged, consumed)
             result == clone_with(w.streams[self[1]], ScopeOutput(index, 0), merged)
         IN  [panic |-> FALSE, w |-> [w3 EXCEPT !.streams = Append(@, result)],
              ret |-> Len(w.streams) + 1]

\* ConcatVecExt::concatenate (lines 32-46) on the world
\* w = [graphs, streams, ports, maps, log]; self is the vector of stream
\* indices. The returned stream joins w.streams; ret is its index.
concatenate(w, self) ==
    IF Len(self) = 0
    THEN [panic |-> TRUE, w |-> w, ret |-> 0]
    ELSE LET merged == Len(w.ports) + 1
             consumed == NewCountMaps(Len(w.maps), Len(self))
             w1 == [w EXCEPT !.ports = Append(@, <<>>),
                             !.maps = @ \o [i \in 1..Len(consumed) |-> EmptyMap]]
             g == w.streams[self[1]].graph
             added == add_scope(w1.graphs[g], ConcatScope(consumed))
             index == added.index
             w2 == [w1 EXCEPT !.cells = borrow_for_statement(@, GraphCell(g)),
                              !.graphs[g] = added.graph,
                              !.log = Append(@, [op |-> "add_scope", graph |-> g,
                                                 index |-> index])]
             w3 == ConnectAll(w2, self, 0, index, merged, consumed)
             result == clone_with(w.streams[self[1]], ScopeOutput(index, 0), merged)
         IN  [panic |-> FALSE, w |-> [w3 EXCEPT !.streams = Append(@, result)],
              ret |-> Len(w.streams) + 1]

\* Variant of concat that wires other to input 0 and self to input 1.
concat_other_first(w, self, other) ==
    LET merged == Len(w.ports) + 1
        consumed == NewCountMaps(Len(w.maps), 2)
        w1 == [w EXCEPT !.ports = Append(@, <<>>),
                        !.maps = @ \o [i \in 1..Len(consumed) |-> EmptyMap]]
        g == w.streams[self].graph
        added == add_scope(w1.graphs[g], ConcatScope(consumed))
        index == added.index
        w2 == [w1 EXCEPT !.cells = borrow_for_statement(@, GraphCell(g)),
                         !.graphs[g] = added.graph,
                         !.log = Append(@, [op |-> "add_scope", graph |-> g,
                                            index |-> index])]
        w3 == connect_to(w2, other, ScopeInput(index, 0), ObserverHelper(merged, consumed[1]))
        w4 == connect_to(w3, self, ScopeInput(index, 1), ObserverHelper(merged, consumed[2]))
        result == clone_with(w.streams[self], ScopeOutput(index, 0), merged)
    IN  [panic |-> FALSE, w |-> [w4 EXCEPT !.streams = Append(@, result)],
         ret |-> Len(w.streams) + 1]

\* Variant of concat that keeps the RefMut it adds the scope through until it
\* returns.
concat_holding(w, self, other) ==
    LET merged == Len(w.ports) + 1
        consumed == NewCountMaps(Len(w.maps), 2)
        w1 == [w EXCEPT !.ports = Append(@, <<>>),
                        !.maps = @ \o [i \in 1..Len(consumed) |-> EmptyMap]]
        g == w.streams[self].graph
        added == add_scope(w1.graphs[g], ConcatScope(consumed))
        index == added.index
        w2 == [w1 EXCEPT !.cells = borrow_mut(@, GraphCell(g)),
                         !.graphs[g] = added.graph,
                         !.log = Append(@, [op |-> "add_scope", graph |-> g,
                                            index |-> index])]
        w3 == connect_to(w2, self, ScopeInput(index, 0), ObserverHelper(merged, consumed[1]))
        w4 == connect_to(w3, other, ScopeInput(index, 1), ObserverHelper(merged, consumed[2]))
        result == clone_with(w.streams[self], ScopeOutput(index, 0), merged)
    IN  [panic |-> FALSE,
         w |-> [w4 EXCEPT !.streams = Append(@, result), !.cells = drop(@, GraphCell(g))],
         ret |-> Len(w.streams) + 1]

\* ConcatExt::concat (lines 16-26): self and other are stream indices.
concat(w, self, other) ==
    LET merged == Len(w.ports) + 1
        consumed == NewCountMaps(Len(w.maps), 2)
        w1 == [w EXCEPT !.ports = Append(@, <<>>),
                        !.maps = @ \o [i \in 1..Len(consumed) |-> EmptyMap]]
        g == w.streams[self].graph
        added == add_scope(w1.graphs[g], ConcatScope(consumed))
        index == added.index
        w2 == [w1 EXCEPT !.cells = borrow_for_statement(@, GraphCell(g)),
                         !.graphs[g] = added.graph,
                         !.log = Append(@, [op |-> "add_scope", graph |-> g,
                                            index |-> index])]
        w3 == connect_to(w2, self, ScopeInput(index, 0), ObserverHelper(merged, consumed[1]))
        w4 == connect_to(w3, other, ScopeInput(index, 1), ObserverHelper(merged, consumed[2]))
        result == clone_with(w.streams[self], ScopeOutput(index, 0), merged)
    IN  [panic |-> FALSE, w |-> [w4 EXCEPT !.streams = Append(@, result)],
         ret |-> Len(w.streams) + 1]

\* ------------------------------------------------------------- sending
\* OutputPort send: broadcast to every registered observer, in order; each
\* ObserverHelper counts the message in its CountMap and forwards it to the
\* port it wraps. st = [maps, delivered, cells].
RECURSIVE port_send(_, _, _), observers_send(_, _, _, _)
port_send(st, p, t) ==
    observers_send([st EXCEPT !.delivered[p][t] = @ + 1], ports[p], 1, t)
observers_send(st, obs, i, t) ==
    IF i > Len(obs)
    THEN st
    ELSE LET st1 == [st EXCEPT !.cells = borrow_for_statement(@, MapCell(obs[i].counts)),
                               !.maps[obs[i].counts] = update(@, t, 1)]
             st2 == port_send(st1, obs[i].observer, t)
         IN  observers_send(st2, obs, i + 1, t)

\* ------------------------------------------------------------- helpers
RECURSIVE SumOver(_, _)
SumOver(S, f) ==
    IF S = {} THEN 0
    ELSE LET x == CHOOSE y \in S : TRUE IN f[x] + SumOver(S \ {x}, f)

InjSeqs(S, n) == {q \in [1..n -> S] : \A i, j \in 1..n : i # j => q[i] # q[j]}

\* The merge scopes of the graphs, as <<graph, position>>.
MergeScopes ==
    UNION {{<<g, k>> : k \in {j \in 1..Len(graphs[g].scopes) :
                                 graphs[g].scopes[j].name = "Concat"}} : g \in Graphs}

\* The streams whose source is an input scope of their graph.
LeafStreams ==
    {s \in 1..Len(streams) :
        LET n == streams[s].name
            G == graphs[streams[s].graph]
        IN  /\ n.scope + 1 <= Len(G.scopes)
            /\ G.scopes[n.scope + 1].name = "Input"}

LeafPorts == {streams[s].ports : s \in LeafStreams}

SentTotal ==
    SumOver(LeafPorts \X Timestamps,
            [pt \in LeafPorts \X Timestamps |-> delivered[pt[1]][pt[2]]])

World == [graphs |-> graphs, streams |-> streams, ports |-> ports, maps |-> maps,
          log |-> <<>>, cells |-> NoBorrow]

\* A call as recorded in last: stream is the index of the stream a concat or
\* concatenate returned (0: none); log lists the graph and port operations the
\* call made, in order; for a pull, ret is the value it returned and n the
\* number of entries it popped.
Call(op, args, stream, log) ==
    [op |-> op, args |-> args, stream |-> stream, log |-> log, ret |-> FALSE, n |-> 0]

\* ------------------------------------------------------------- states
\* Two input scopes in graph 1, one in graph 2, a stream on each.
World0 ==
    [graphs |-> [g \in Graphs |->
                   [scopes |-> IF g = 1 THEN <<InputScope, InputScope>> ELSE <<InputScope>>,
                    edges |-> <<>>]],
     streams |-> << StreamNew(ScopeOutput(0, 0), 1, 1),
                    StreamNew(ScopeOutput(1, 0), 2, 1),
                    StreamNew(ScopeOutput(0, 0), 3, 2) >>,
     ports |-> << <<>>, <<>>, <<>> >>,
     maps |-> <<>>,
     log |-> <<>>,
     cells |-> NoBorrow]

\* The positions a scope can have in a graph.
Positions == 1..(Len(World0.graphs[1].scopes) + MaxScopes)

\* ------------------------------------------------------------- hello.rs
Workers == 0..(Peers - 1)
None == [from |-> -1, text |-> -1]

\* Variant of the loop test that also polls when received = peers.
while_head_inclusive(self, peers) ==
    IF self.received <= peers
    THEN [self EXCEPT !.pc = "pre_work"]
    ELSE [self EXCEPT !.pc = "returned"]

\* line 26: while received < allocator.peers(); line 38 when it fails.
while_head(self, peers) ==
    IF self.received < peers
    THEN [self EXCEPT !.pc = "pre_work"]
    ELSE [self EXCEPT !.pc = "returned"]

\* Variant that goes back to the loop test right after a message was
\* received, without calling post_work.
worker_continue(self, peers, message) ==
    CASE self.pc = "send" ->
            [self EXCEPT !.pc = "done", !.call = [op |-> "send", i |-> self.i]]
      [] self.pc = "done" ->
            IF self.i + 1 < peers
            THEN [self EXCEPT !.pc = "send", !.i = @ + 1,
                              !.call = [op |-> "done", i |-> self.i]]
            ELSE while_head([self EXCEPT !.i = @ + 1,
                                         !.call = [op |-> "done", i |-> self.i]], peers)
      [] self.pc = "pre_work" ->
            [self EXCEPT !.pc = "recv", !.call = [op |-> "pre_work", i |-> -1]]
      [] self.pc = "recv" ->
            IF message # None
            THEN while_head([self EXCEPT !.received = @ + 1,
                                         !.call = [op |-> "recv", i |-> -1]], peers)
            ELSE [self EXCEPT !.pc = "post_work", !.call = [op |-> "recv", i |-> -1]]
      [] self.pc = "post_work" ->
            while_head([self EXCEPT !.call = [op |-> "post_work", i |-> -1]], peers)

\* Variant that sends a second time where done is due.
worker_send_again(self, peers, message) ==
    CASE self.pc = "send" ->
            [self EXCEPT !.pc = "done", !.call = [op |-> "send", i |-> self.i]]
      [] self.pc = "done" ->
            IF self.i + 1 < peers
            THEN [self EXCEPT !.pc = "send", !.i = @ + 1,
                              !.call = [op |-> "send", i |-> self.i]]
            ELSE while_head([self EXCEPT !.i = @ + 1,
                                         !.call = [op |-> "send", i |-> self.i]], peers)
      [] self.pc = "pre_work" ->
            [self EXCEPT !.pc = "recv", !.call = [op |-> "pre_work", i |-> -1]]
      [] self.pc = "recv" ->
            [self EXCEPT !.pc = "post_work", !.call = [op |-> "recv", i |-> -1],
                         !.received = IF message # None THEN @ + 1 ELSE @]
      [] self.pc = "post_work" ->
            while_head([self EXCEPT !.call = [op |-> "post_work", i |-> -1]], peers)

\* One step of the worker closure (lines 10-39): self = [pc, i, received,
\* call]; pc names the call the worker makes next, call is the call it made
\* last; message is what receiver.recv() returns when the step is the recv.
worker(self, peers, message) ==
    CASE self.pc = "send" ->                                       \* line 19
            [self EXCEPT !.pc = "done", !.call = [op |-> "send", i |-> self.i]]
      [] self.pc = "done" ->                                       \* lines 20, 18, 25
            IF self.i + 1 < peers
            THEN [self EXCEPT !.pc = "send", !.i = @ + 1,
                              !.call = [op |-> "done", i |-> self.i]]
            ELSE while_head([self EXCEPT !.i = @ + 1,
                                         !.call = [op |-> "done", i |-> self.i]], peers)
      [] self.pc = "pre_work" ->                                   \* line 28
            [self EXCEPT !.pc = "recv", !.call = [op |-> "pre_work", i |-> -1]]
      [] self.pc = "recv" ->                                       \* lines 30-33
            [self EXCEPT !.pc = "post_work", !.call = [op |-> "recv", i |-> -1],
                         !.received = IF message # None THEN @ + 1 ELSE @]
      [] self.pc = "post_work" ->                                  \* lines 35, 26
            while_head([self EXCEPT !.call = [op |-> "post_work", i |-> -1]], peers)

\* The transport, from spec 6. Sender.send enqueues without flushing.
sender_send(sender, message) ==
    [sender EXCEPT !.sent = @ + 1, !.buffer = Append(@, message)]

\* Sender.done: no further sends; what was enqueued leaves for the peer.
sender_done(sender) == [sender EXCEPT !.done = @ + 1, !.buffer = <<>>]

\* Receiver.recv: non-blocking; None when nothing has arrived.
receiver_recv(receiver) == IF receiver = <<>> THEN None ELSE Head(receiver)

\* hello.rs as its workers start: line 18 with i = 0, line 25.
HelloInit ==
    /\ workers = [w \in Workers |->
                     [pc |-> "send", i |-> 0, received |-> 0,
                      call |-> [op |-> "allocate", i |-> -1]]]
    /\ senders = [w \in Workers |-> [i \in Workers |->
                     [sent |-> 0, done |-> 0, buffer |-> <<>>]]]
    /\ channels = [w \in Workers |-> [i \in Workers |-> <<>>]]
    /\ receivers = [w \in Workers |-> <<>>]

Init ==
    /\ applied = <<>>
    /\ HelloInit
    /\ graphs = World0.graphs
    /\ streams = World0.streams
    /\ ports = World0.ports
    /\ maps = World0.maps
    /\ messages_consumed = [g \in Graphs |-> <<>>]
    /\ messages_produced = [g \in Graphs |-> <<>>]
    /\ delivered = <<>>
    /\ clean = {}
    /\ pc = "build"
    /\ last = Call("new", <<>>, 0, <<>>)
    /\ cells = World0.cells

Install(w) ==
    /\ graphs' = w.graphs
    /\ streams' = w.streams
    /\ ports' = w.ports
    /\ maps' = w.maps
    /\ cells' = w.cells

Concatenate(self) ==
    /\ pc = "build"
    /\ Len(self) = 0 \/ Cardinality(MergeScopes) < MaxScopes
    /\ LET r == concatenate(World, self)
       IN  /\ Install(r.w)
           /\ pc' = IF r.panic THEN "panicked" ELSE pc
           /\ last' = Call("concatenate", self, r.ret, r.w.log)
    /\ UNCHANGED <<messages_consumed, messages_produced, delivered, clean>>
    /\ UNCHANGED <<applied, hello>>

Concat(self, other) ==
    /\ pc = "build"
    /\ Cardinality(MergeScopes) < MaxScopes
    /\ self # other
    /\ LET r == concat(World, self, other)
       IN  /\ Install(r.w)
           /\ last' = Call("concat", <<self, other>>, r.ret, r.w.log)
    /\ UNCHANGED <<messages_consumed, messages_produced, delivered, clean, pc>>
    /\ UNCHANGED <<applied, hello>>

\* The merge scopes' counter maps are the first on the heap of a graph built by
\* merges alone; a map beyond them belongs to a direct connect_to's observer.
MergeInputs ==
    SumOver(MergeScopes, [gk \in MergeScopes |-> inputs(graphs[gk[1]].scopes[gk[2]])])

\* The build calls made so far: each merge and each clone_with adds a stream,
\* each direct connect_to a counter map.
BuildCalls == (Len(streams) - Len(World0.streams)) + (Len(maps) - MergeInputs)

\* The targets and sources a caller can name in graph g: the first input and
\* the first output of a scope of g.
TargetsOf(g) == {ScopeInput(k - 1, 0) : k \in 1..Len(graphs[g].scopes)}
SourcesOf(g) == {ScopeOutput(k - 1, 0) : k \in 1..Len(graphs[g].scopes)}

\* A consumer is wired onto stream s: the caller allocates an output port and a
\* counter map for its observer, as concat does (lines 17-19), and calls
\* Stream::connect_to.
ConnectTo(s, target) ==
    /\ pc = "build"
    /\ LET merged == Len(ports) + 1
           counts == Len(maps) + 1
           w1 == [World EXCEPT !.ports = Append(@, <<>>), !.maps = Append(@, EmptyMap)]
           w2 == connect_to(w1, s, target, ObserverHelper(merged, counts))
       IN  /\ Install(w2)
           /\ last' = Call("connect_to", <<s>>, 0, w2.log)
    /\ UNCHANGED <<messages_consumed, messages_produced, delivered, clean, pc>>
    /\ UNCHANGED <<applied, hello>>

\* A stream is derived from stream s with Stream::clone_with, on a fresh port.
CloneWith(s, source) ==
    /\ pc = "build"
    /\ LET targets == Len(ports) + 1
           result == clone_with(streams[s], source, targets)
       IN  /\ streams' = Append(streams, result)
           /\ ports' = Append(ports, <<>>)
           /\ last' = Call("clone_with", <<s>>, Len(streams) + 1, <<>>)
    /\ cells' = NoBorrow
    /\ UNCHANGED <<graphs, maps, messages_consumed, messages_produced, delivered,
                   clean, pc>>
    /\ UNCHANGED <<applied, hello>>

\* The driver sizes its report buffers by each scope's inputs() and outputs().
ConsumedBuffers(G) ==
    [g \in Graphs |-> [k \in 1..Len(G[g].scopes) |->
        [i \in 1..inputs(G[g].scopes[k]) |-> EmptyMap]]]

ProducedBuffers(G) ==
    [g \in Graphs |-> [k \in 1..Len(G[g].scopes) |->
        [i \in 1..outputs(G[g].scopes[k]) |-> EmptyMap]]]

\* The graph is handed to the driver.
StartRun ==
    /\ pc = "build"
    /\ pc' = "run"
    /\ messages_consumed' = ConsumedBuffers(graphs)
    /\ messages_produced' = ProducedBuffers(graphs)
    /\ delivered' = [p \in 1..Len(ports) |-> [t \in Timestamps |-> 0]]
    /\ last' = Call("run", <<>>, 0, <<>>)
    /\ cells' = NoBorrow
    /\ UNCHANGED <<graphs, streams, ports, maps, clean>>
    /\ UNCHANGED <<applied, hello>>

\* One message at timestamp t is sent on leaf stream s.
Send(s, t) ==
    /\ pc = "run"
    /\ s \in LeafStreams
    /\ SentTotal < MaxSends
    /\ LET st == port_send([maps |-> maps, delivered |-> delivered, cells |-> NoBorrow],
                            streams[s].ports, t)
       IN  /\ maps' = st.maps
           /\ cells' = st.cells
           /\ delivered' = st.delivered
           /\ clean' = {gk \in clean :
                          \A c \in 1..Len(graphs[gk[1]].scopes[gk[2]].consumed) :
                             LET id == graphs[gk[1]].scopes[gk[2]].consumed[c]
                             IN  st.maps[id] = maps[id]}
    /\ last' = Call("send", <<>>, 0, <<>>)
    /\ UNCHANGED <<graphs, streams, ports, messages_consumed, messages_produced, pc>>
    /\ UNCHANGED <<applied, hello>>

\* The driver polls merge scope k of graph g.
Pull(g, k) ==
    /\ pc = "run"
    /\ <<g, k>> \in MergeScopes
    /\ \E r \in {pull_internal_progress(graphs[g].scopes[k], maps,
                     messages_consumed[g][k], messages_produced[g][k], NoBorrow)} :
           /\ maps' = r.maps
           /\ cells' = r.cells
           /\ messages_consumed' = [messages_consumed EXCEPT ![g][k] = r.mc]
           /\ messages_produced' = [messages_produced EXCEPT ![g][k] = r.mp]
           /\ last' = [Call("pull", <<g, k>>, 0, <<>>) EXCEPT !.ret = r.ret, !.n = r.n]
    /\ clean' = clean \cup {<<g, k>>}
    /\ UNCHANGED <<graphs, streams, ports, delivered, pc>>
    /\ UNCHANGED <<applied, hello>>

\* ------------------------------------------------------------- counter maps
\* The deltas an observer may record (spec 4.1: any non-zero integer).
Deltas == {-1, 1, 2}

\* A merge of the two streams of graph 1, handed to the driver.
CountWorld == concatenate(World0, <<1, 2>>).w

CountInit ==
    /\ applied = <<>>
    /\ HelloInit
    /\ graphs = CountWorld.graphs
    /\ streams = CountWorld.streams
    /\ ports = CountWorld.ports
    /\ maps = CountWorld.maps
    /\ messages_consumed = ConsumedBuffers(CountWorld.graphs)
    /\ messages_produced = ProducedBuffers(CountWorld.graphs)
    /\ delivered = [p \in 1..Len(CountWorld.ports) |-> [t \in Timestamps |-> 0]]
    /\ clean = {}
    /\ pc = "run"
    /\ last = Call("run", <<>>, 0, <<>>)
    /\ cells = NoBorrow

\* The observer bound to shared counter map id records the delta val at key:
\* counts.borrow_mut().update(key, val). The history notes the call and the
\* count the map held at key before it.
Update(id, key, val) ==
    /\ pc = "run"
    /\ Len(applied) < MaxUpdates
    /\ maps' = [maps EXCEPT ![id] = update(@, key, val)]
    /\ cells' = borrow_for_statement(NoBorrow, MapCell(id))
    /\ applied' = Append(applied, [counts |-> id, key |-> key, val |-> val,
                                    held |-> Count(maps[id], key)])
    /\ clean' = {gk \in clean :
                   \A c \in 1..Len(graphs[gk[1]].scopes[gk[2]].consumed) :
                      graphs[gk[1]].scopes[gk[2]].consumed[c] # id}
    /\ last' = Call("update", <<id, key, val>>, 0, <<>>)
    /\ UNCHANGED <<graphs, streams, ports, messages_consumed, messages_produced,
                   delivered, pc, hello>>

CountNext ==
    \/ \E id \in 1..Len(maps), key \in Timestamps, val \in Deltas : Update(id, key, val)
    \/ \E g \in Graphs, k \in Positions : Pull(g, k)

CountSpec == CountInit /\ [][CountNext]_vars

\* ------------------------------------------------------------- hello.rs, steps
\* Worker w makes its next call, with the call's effect on the transport.
Step(w) ==
    /\ workers[w].pc # "returned"
    /\ LET self == workers[w]
           message == IF self.pc = "recv" THEN receiver_recv(receivers[w]) ELSE None
           next == worker(self, Peers, message)
           i == next.call.i
       IN  /\ workers' = [workers EXCEPT ![w] = next]
           /\ senders' =
                 CASE next.call.op = "send" ->
                         [senders EXCEPT ![w][i] =
                             sender_send(@, [from |-> w, text |-> i])]
                   [] next.call.op = "done" ->
                         [senders EXCEPT ![w][i] = sender_done(@)]
                   [] OTHER -> senders
           /\ channels' =
                 IF next.call.op = "done"
                 THEN [channels EXCEPT ![w][i] = @ \o senders[w][i].buffer]
                 ELSE channels
           /\ receivers' =
                 IF next.call.op = "recv" /\ receivers[w] # <<>>
                 THEN [receivers EXCEPT ![w] = Tail(@)]
                 ELSE receivers
    /\ UNCHANGED <<flow, applied>>

\* The transport hands the oldest message in flight from src to dst to dst's
\* receiver.
Deliver(src, dst) ==
    /\ channels[src][dst] # <<>>
    /\ channels' = [channels EXCEPT ![src][dst] = Tail(@)]
    /\ receivers' = [receivers EXCEPT ![dst] = Append(@, Head(channels[src][dst]))]
    /\ UNCHANGED <<flow, applied, workers, senders>>

HelloNext ==
    \/ \E w \in Workers : Step(w)
    \/ \E src, dst \in Workers : Deliver(src, dst)

\* Every worker thread keeps running and the transport is reliable.
HelloSpec ==
    /\ Init /\ [][HelloNext]_vars
    /\ \A w \in Workers : WF_vars(Step(w))
    /\ \A src, dst \in Workers : WF_vars(Deliver(src, dst))

\* The vectors concatenate is called on: no, one or two distinct streams.
VecSet == UNION {InjSeqs(1..Len(streams), n) : n \in {0, 1, 2}}

Next ==
    \/ \E self \in VecSet : Concatenate(self)
    \/ \E a, b \in 1..Len(streams) : Concat(a, b)
    \/ StartRun
    \/ \E s \in 1..Len(streams), t \in Timestamps : Send(s, t)
    \/ \E g \in Graphs, k \in Positions : Pull(g, k)

Spec == Init /\ [][Next]_vars

\* The graph-building interface as operator authors use it: the four stream
\* operations in any order, at most MaxCalls of them.
BuildNext ==
    \/ BuildCalls < MaxCalls /\ \E self \in VecSet : Concatenate(self)
    \/ BuildCalls < MaxCalls /\ \E a, b \in 1..Len(streams) : Concat(a, b)
    \/ BuildCalls < MaxCalls /\
          \E s \in 1..Len(streams) : \E target \in TargetsOf(streams[s].graph) :
             ConnectTo(s, target)
    \/ BuildCalls < MaxCalls /\
          \E s \in 1..Len(streams) : \E source \in SourcesOf(streams[s].graph) :
             CloneWith(s, source)

BuildSpec == Init /\ [][BuildNext]_vars

\* Consumers wired onto streams, directly (each to the first input of its
\* graph) and through merges, then messages sent on the leaf streams.
WiringNext ==
    \/ BuildCalls < MaxCalls /\ \E s \in 1..Len(streams) : ConnectTo(s, ScopeInput(0, 0))
    \/ BuildCalls < MaxCalls /\ \E a, b \in 1..Len(streams) : Concat(a, b)
    \/ StartRun
    \/ \E s \in 1..Len(streams), t \in Timestamps : Send(s, t)

WiringSpec == Init /\ [][WiringNext]_vars

\* One worker builds a graph with at most one consumer wired directly, before
\* any merge, and merges, MaxCalls calls at most, then sends on the leaf streams and polls the merge
\* scopes, in any order. Borrows do not depend on the timestamps, so every
\* message carries the same one.
CellNext ==
    \/ BuildCalls < MaxCalls /\ Len(maps) = 0 /\
          \E s \in 1..Len(streams) : ConnectTo(s, ScopeInput(0, 0))
    \/ BuildCalls < MaxCalls /\ \E self \in VecSet : Concatenate(self)
    \/ BuildCalls < MaxCalls /\ \E a, b \in 1..Len(streams) : Concat(a, b)
    \/ StartRun
    \/ \E s \in 1..Len(streams) : Send(s, 0)
    \/ \E g \in Graphs, k \in Positions : Pull(g, k)

CellSpec == Init /\ [][CellNext]_vars

\* The driver keeps polling every scope (spec 4.5): a poll that would change
\* the state is not put off forever.
FairSpec ==
    Spec /\ \A g \in Graphs : \A k \in Positions : WF_vars(Pull(g, k))

\* ------------------------------------------------------------- views
Scope(gk) == graphs[gk[1]].scopes[gk[2]]
Inputs(gk) == 1..Len(messages_consumed[gk[1]][gk[2]])

\* What input i's shared counter map still holds at t.
Pending(gk, i, t) == Count(maps[Scope(gk).consumed[i]], t)
\* What has been reported so far for input i, and for the output, at t.
Consumed(gk, i, t) == Count(messages_consumed[gk[1]][gk[2]][i], t)
Produced(gk, t) == Count(messages_produced[gk[1]][gk[2]][1], t)

\* What the observers bound to input i's counter map have been sent at t.
Recorded(gk, i, t) ==
    LET id == Scope(gk).consumed[i]
        obs == UNION {{<<p, j>> : j \in {o \in 1..Len(ports[p]) : ports[p][o].counts = id}} :
                         p \in 1..Len(ports)}
    IN  SumOver(obs, [po \in obs |-> delivered[po[1]][t]])

SumInputs(gk, f(_)) == SumOver(Inputs(gk), [i \in Inputs(gk) |-> f(i)])

\* The step is a call of pull_internal_progress on merge scope gk.
PullStep(gk) == last'.op = "pull" /\ last'.args = gk

\* ------------------------------------------------------------- C1
\* C1 (merge neutrality): every (timestamp, delta) a pull drains from input
\* i's counter map is added unchanged to messages_consumed[i] and to
\* messages_produced[0]; so at every timestamp the produced total equals the
\* sum of the consumed totals over the inputs, and a timestamp is reported
\* only if it was sent on some input.
C1_Totals ==
    pc = "run" =>
        \A gk \in MergeScopes : \A t \in Timestamps :
            /\ Produced(gk, t) = SumInputs(gk, LAMBDA i : Consumed(gk, i, t))
            /\ Produced(gk, t) # 0 => \E i \in Inputs(gk) : Recorded(gk, i, t) > 0
            /\ DOMAIN messages_produced[gk[1]][gk[2]][1] \subseteq Timestamps

C1_Drain ==
    \A gk \in MergeScopes :
        PullStep(gk) =>
            \A t \in Timestamps :
                /\ \A i \in Inputs(gk) :
                      Consumed(gk, i, t)' = Consumed(gk, i, t) + Pending(gk, i, t)
                /\ Produced(gk, t)' =
                      Produced(gk, t) + SumInputs(gk, LAMBDA i : Pending(gk, i, t))

C1_MergeNeutrality == []C1_Totals /\ [][C1_Drain]_vars

\* Two inputs were fed one message each at one timestamp, drained by two
\* pulls, and 1 + 1 is reported as produced.
C1_Witness ==
    /\ last.op = "pull"
    /\ last.n = 1
    /\ \E t \in Timestamps :
          /\ Len(Scope(last.args).consumed) = 2
          /\ Consumed(last.args, 1, t) = 1
          /\ Consumed(last.args, 2, t) = 1
          /\ Produced(last.args, t) = 2

\* ------------------------------------------------------------- C2
\* C2 (conservation): for every input i of a merge scope and every timestamp
\* t, what has been reported consumed for i at t plus what is still pending
\* at t in i's shared counter map equals what i's observer recorded at t.
C2_Conservation ==
    pc = "run" =>
        \A gk \in MergeScopes : \A i \in Inputs(gk) : \A t \in Timestamps :
            Consumed(gk, i, t) + Pending(gk, i, t) = Recorded(gk, i, t)

\* An input with one message reported and another still pending.
C2_Witness ==
    /\ pc = "run"
    /\ \E gk \in MergeScopes : \E i \in Inputs(gk) : \E t \in Timestamps :
          /\ Consumed(gk, i, t) = 1
          /\ Pending(gk, i, t) = 1


\* ------------------------------------------------------------- C3
\* C3 (eventual reporting): under a driver that keeps polling the merge
\* scopes, whatever an input's observer recorded is eventually reported as
\* consumed on that input and as produced on the output, although every call
\* returns false; and once sends have stopped (a run sends at most MaxSends
\* messages) all shared counter maps become and remain empty.
C3_Reported ==
    pc = "run" =>
        \A gk \in MergeScopes : \A t \in Timestamps :
            /\ \A i \in Inputs(gk) : Consumed(gk, i, t) >= Recorded(gk, i, t)
            /\ Produced(gk, t) >= SumInputs(gk, LAMBDA i : Recorded(gk, i, t))

C3_Empty == \A id \in 1..Len(maps) : maps[id] = EmptyMap

C3_EventualReporting == []<>C3_Reported /\ <>[]C3_Empty /\ [](last.op = "pull" => ~last.ret)

\* Both inputs of a merge were sent to and everything sent has been reported.
C3_Witness ==
    /\ pc = "run"
    /\ C3_Reported
    /\ C3_Empty
    /\ \E gk \in MergeScopes : \E t \in Timestamps :
          /\ Len(Scope(gk).consumed) = 2
          /\ Recorded(gk, 1, t) > 0
          /\ Recorded(gk, 2, 1 - t) > 0

\* ------------------------------------------------------------- C4
\* C4: pull_internal_progress returns false on every call, whether or not a
\* counter map held pending deltas when it was called.
C4_ReturnsFalse == last.op = "pull" => last.ret = FALSE

\* A call that popped entries from its counter maps and returned false.
C4_Witness == last.op = "pull" /\ last.n > 1 /\ last.ret = FALSE

\* ------------------------------------------------------------- C5
\* C5 (idempotent drain): a pull of a merge scope none of whose inputs was
\* sent to since its previous pull returned adds nothing to any consumed
\* report or to the produced report, leaves every shared counter map of the
\* scope empty, and returns false.
C5_Step ==
    \A gk \in MergeScopes :
        (gk \in clean /\ PullStep(gk)) =>
            /\ messages_consumed' = messages_consumed
            /\ messages_produced' = messages_produced
            /\ \A i \in 1..Len(Scope(gk).consumed) : maps'[Scope(gk).consumed[i]] = EmptyMap
            /\ last'.n = 0
            /\ last'.ret = FALSE

C5_IdempotentDrain == [][C5_Step]_vars

\* A second pull of a scope that had reported both timestamps before: it
\* popped nothing.
C5_Witness ==
    /\ last.op = "pull"
    /\ last.n = 0
    /\ last.args \in clean
    /\ \A t \in Timestamps : Produced(last.args, t) > 0


\* ------------------------------------------------------------- C6
\* C6 (per-input attribution): what input i's observer recorded is reported
\* in messages_consumed[i] only, so no input is ever reported to have
\* consumed more than its own observer recorded; and when each of the N
\* inputs of a merge holds exactly one message at the same timestamp t, one
\* pull reports exactly {t: +1} consumed on each input and exactly {t: +N}
\* produced on the output.
C6_Own ==
    pc = "run" =>
        \A gk \in MergeScopes : \A i \in Inputs(gk) : \A t \in Timestamps :
            Consumed(gk, i, t) <= Recorded(gk, i, t)

C6_OneEach(gk, t) ==
    \A i \in 1..Len(Scope(gk).consumed) : maps[Scope(gk).consumed[i]] = (t :> 1)

C6_Scenario ==
    \A gk \in MergeScopes : \A t \in Timestamps :
        (PullStep(gk) /\ C6_OneEach(gk, t)) =>
            /\ \A i \in Inputs(gk) : \A u \in Timestamps :
                  Consumed(gk, i, u)' - Consumed(gk, i, u) = IF u = t THEN 1 ELSE 0
            /\ \A u \in Timestamps :
                  Produced(gk, u)' - Produced(gk, u) =
                      IF u = t THEN Len(Scope(gk).consumed) ELSE 0

C6_Attribution == []C6_Own /\ [][C6_Scenario]_vars

\* The concrete scenario: two inputs, one message each at timestamp 0, one
\* pull; the reports read {0: +1}, {0: +1} and {0: +2}.
C6_Witness ==
    /\ last.op = "pull"
    /\ last.n = 2
    /\ Len(Scope(last.args).consumed) = 2
    /\ messages_consumed[last.args[1]][last.args[2]] = << (0 :> 1), (0 :> 1) >>
    /\ messages_produced[last.args[1]][last.args[2]] = << (0 :> 2) >>


\* ------------------------------------------------------------- C7
\* C7: concatenate on an empty vector of streams fails, and fails before any
\* effect: no scope is added to a graph, no edge is recorded, no observer is
\* registered on an output port.
C7_Step ==
    (last'.op = "concatenate" /\ Len(last'.args) = 0) =>
        /\ pc' = "panicked"
        /\ last'.log = <<>>
        /\ graphs' = graphs
        /\ \A p \in 1..Len(ports) : ports'[p] = ports[p]

C7_EmptyFails == [][C7_Step]_vars

\* concatenate was called with no stream on a graph that already held a merge.
C7_Witness ==
    /\ pc = "panicked"
    /\ last.op = "concatenate"
    /\ last.args = <<>>
    /\ MergeScopes # {}

\* ------------------------------------------------------------- C8
\* C8: the merge scope registered by concatenate over N >= 1 streams (by
\* concat: N = 2) reports inputs() = N and outputs() = 1, and no scope's
\* inputs() or outputs() changes afterwards, whatever is sent or pulled.
C8_Registered ==
    (last.op \in {"concat", "concatenate"} /\ pc # "panicked") =>
        LET e == last.log[1]
            scope == graphs[e.graph].scopes[e.index + 1]
        IN  /\ e.op = "add_scope"
            /\ scope.name = "Concat"
            /\ inputs(scope) = Len(last.args)
            /\ outputs(scope) = 1

C8_AsWired ==
    pc = "run" =>
        \A gk \in MergeScopes :
            /\ inputs(Scope(gk)) = Len(messages_consumed[gk[1]][gk[2]])
            /\ outputs(Scope(gk)) = Len(messages_produced[gk[1]][gk[2]])

C8_Fixed ==
    \A g \in Graphs : \A k \in 1..Len(graphs[g].scopes) :
        /\ k <= Len(graphs'[g].scopes)
        /\ inputs(graphs'[g].scopes[k]) = inputs(graphs[g].scopes[k])
        /\ outputs(graphs'[g].scopes[k]) = outputs(graphs[g].scopes[k])

C8_Arity == [](C8_Registered /\ C8_AsWired) /\ [][C8_Fixed]_vars

\* A merge over two streams still has two inputs after sends and a pull.
C8_Witness ==
    /\ pc = "run"
    /\ last.op = "pull"
    /\ last.n > 0
    /\ inputs(Scope(last.args)) = 2
    /\ \A t \in Timestamps : Produced(last.args, t) > 0

\* ------------------------------------------------------------- C9
\* C9: a successful concatenate over N streams records, for each position i,
\* exactly one edge from stream i's source to ScopeInput(index, i), index
\* being what add_scope returned for the new merge scope, and registers
\* exactly one observer on stream i's port, bound to the merged output port
\* and to counter map i; add_scope comes before every connect, and every
\* recorded target names the new scope and a port below its inputs().
NewEdges(g) == {j \in 1..Len(graphs'[g].edges) : j > Len(graphs[g].edges)}
NewObservers(p) == {j \in 1..Len(ports'[p]) : j > Len(ports[p])}

C9_Step ==
    (last'.op = "concatenate" /\ pc' # "panicked") =>
        LET self == last'.args
            g0 == streams[self[1]].graph
            index == Len(graphs[g0].scopes)
            merged == Len(ports) + 1
            log == last'.log
        IN  /\ log[1] = [op |-> "add_scope", graph |-> g0, index |-> index]
            /\ \A j \in 2..Len(log) : log[j].op # "add_scope"
            /\ Len(graphs'[g0].scopes) = index + 1
            /\ \A i \in 0..(Len(self) - 1) :
                  LET st == streams[self[i + 1]]
                      e == [source |-> st.name, target |-> ScopeInput(index, i)]
                      o == ObserverHelper(merged,
                                          graphs'[g0].scopes[index + 1].consumed[i + 1])
                  IN  /\ Cardinality({j \in NewEdges(st.graph) :
                                         graphs'[st.graph].edges[j] = e}) = 1
                      /\ Cardinality({j \in NewObservers(st.ports) :
                                         ports'[st.ports][j] = o}) = 1
            /\ SumOver(Graphs, [g \in Graphs |-> Cardinality(NewEdges(g))]) = Len(self)
            /\ SumOver(1..Len(ports), [p \in 1..Len(ports) |-> Cardinality(NewObservers(p))])
                  = Len(self)
            /\ \A g \in Graphs : \A j \in NewEdges(g) :
                  LET target == graphs'[g].edges[j].target
                  IN  /\ target.kind = "ScopeInput"
                      /\ target.scope = index
                      /\ target.port < inputs(graphs'[g0].scopes[index + 1])

C9_Wiring == [][C9_Step]_vars

\* concatenate has just wired the two streams of graph 1, the second first.
C9_Witness ==
    /\ last.op = "concatenate"
    /\ pc = "build"
    /\ last.args = <<2, 1>>
    /\ Len(last.log) = 5
    /\ Len(graphs[1].edges) = 2

\* ------------------------------------------------------------- C10
\* C10: the stream concat and concatenate return has the source address
\* ScopeOutput(index, 0) of the merge scope just added, wraps the output port
\* just allocated (the one every input observer forwards to) and refers to the
\* graph cell of the stream it was derived from; the streams passed in keep
\* their source addresses.
C10_Step ==
    (last'.op \in {"concat", "concatenate"} /\ pc' # "panicked") =>
        LET first == streams[last'.args[1]]
            index == Len(graphs[first.graph].scopes)
            result == streams'[last'.stream]
        IN  /\ last'.stream = Len(streams) + 1
            /\ Len(streams') = Len(streams) + 1
            /\ Len(graphs'[first.graph].scopes) = index + 1
            /\ graphs'[first.graph].scopes[index + 1].name = "Concat"
            /\ result.name = ScopeOutput(index, 0)
            /\ Len(ports') = Len(ports) + 1
            /\ result.ports = Len(ports')
            /\ \A p \in 1..Len(ports) : \A j \in NewObservers(p) :
                  ports'[p][j].observer = result.ports
            /\ result.graph = first.graph
            /\ \A s \in 1..Len(streams) : streams'[s] = streams[s]

C10_Returned == [][C10_Step]_vars

\* concat has just merged the stream of graph 2 with a stream of graph 1: the
\* result is the output of the second scope of graph 2, on a fresh port.
C10_Witness ==
    /\ last.op = "concat"
    /\ last.stream = 4
    /\ last.args = <<3, 1>>
    /\ streams[4] = StreamNew(ScopeOutput(1, 0), 4, 2)

\* ------------------------------------------------------------- C11
\* C11 (append-only graph): under connect_to, clone_with, concat and
\* concatenate in any order no scope or edge already in a graph is removed or
\* altered, and the scope index a stream carries keeps naming a scope of its
\* graph; clone_with changes neither scopes nor edges, connect_to adds exactly
\* one edge and no scope, a successful concatenate over N streams adds exactly
\* one scope and N edges (concat: one scope, two edges).
C11_Kept ==
    \A g \in Graphs :
        /\ Len(graphs'[g].scopes) >= Len(graphs[g].scopes)
        /\ Len(graphs'[g].edges) >= Len(graphs[g].edges)
        /\ \A k \in 1..Len(graphs[g].scopes) : graphs'[g].scopes[k] = graphs[g].scopes[k]
        /\ \A j \in 1..Len(graphs[g].edges) : graphs'[g].edges[j] = graphs[g].edges[j]

ScopesAdded ==
    SumOver(Graphs, [g \in Graphs |-> Len(graphs'[g].scopes) - Len(graphs[g].scopes)])
EdgesAdded ==
    SumOver(Graphs, [g \in Graphs |-> Len(graphs'[g].edges) - Len(graphs[g].edges)])

C11_Effects ==
    /\ last'.op = "clone_with" => graphs' = graphs
    /\ last'.op = "connect_to" => ScopesAdded = 0 /\ EdgesAdded = 1
    /\ (last'.op = "concatenate" /\ pc' # "panicked") =>
          ScopesAdded = 1 /\ EdgesAdded = Len(last'.args)
    /\ last'.op = "concat" => ScopesAdded = 1 /\ EdgesAdded = 2

C11_Valid ==
    \A s \in 1..Len(streams) :
        streams[s].name.scope < Len(graphs[streams[s].graph].scopes)

C11_AppendOnly == []C11_Valid /\ [][C11_Kept /\ C11_Effects]_vars

\* concatenate over two streams has just added its scope and two edges to a
\* graph that already held the edge of an earlier connect_to.
C11_Witness ==
    /\ last.op = "concatenate"
    /\ pc = "build"
    /\ Len(last.args) = 2
    /\ \E g \in Graphs :
          /\ Len(graphs[g].edges) = 3
          /\ graphs[g].edges[1].target.scope # graphs[g].edges[2].target.scope

\* ------------------------------------------------------------- C12
\* C12 (fan-out): K calls of connect_to on one stream record K edges with that
\* stream's source address and register K observers on its output port; every
\* send on the port reaches each of the K observers exactly once: each
\* observer's own counter map holds exactly what was sent on the port, and the
\* port an observer forwards to has received exactly what its observers were
\* sent.
EdgesFrom(s) ==
    {j \in 1..Len(graphs[streams[s].graph].edges) :
        graphs[streams[s].graph].edges[j].source = streams[s].name}

\* The observers registered, as <<port, position>>.
Observers == UNION {{<<p, j>> : j \in 1..Len(ports[p])} : p \in 1..Len(ports)}

C12_Connect ==
    \A s \in 1..Len(streams) :
        LET g == streams[s].graph
            p == streams[s].ports
            calls == Cardinality({i \in 1..Len(last'.args) : last'.args[i] = s})
        IN  last'.op \in {"connect_to", "concat"} =>
                /\ Cardinality({j \in NewEdges(g) :
                                   graphs'[g].edges[j].source = streams[s].name}) = calls
                /\ Cardinality(NewObservers(p)) = calls
                /\ \A j \in 1..Len(ports[p]) : ports'[p][j] = ports[p][j]

C12_Registered == \A s \in 1..Len(streams) : Cardinality(EdgesFrom(s)) = Len(ports[streams[s].ports])

C12_Delivered ==
    pc = "run" =>
        \A po \in Observers : \A t \in Timestamps :
            LET o == ports[po[1]][po[2]]
                feeding == {qo \in Observers : ports[qo[1]][qo[2]].observer = o.observer}
            IN  /\ Count(maps[o.counts], t) = delivered[po[1]][t]
                /\ delivered[o.observer][t] =
                      SumOver(feeding, [qo \in feeding |-> delivered[qo[1]][t]])

C12_FanOut == [](C12_Registered /\ C12_Delivered) /\ [][C12_Connect]_vars

\* Two consumers were wired onto one stream and one message was sent on it at
\* each timestamp: both counter maps hold both messages.
C12_Witness ==
    /\ last.op = "send"
    /\ \E s \in LeafStreams :
          LET p == streams[s].ports
          IN  /\ Len(ports[p]) = 2
              /\ Cardinality(EdgesFrom(s)) = 2
              /\ ports[p][1].counts # ports[p][2].counts
              /\ \A t \in Timestamps : delivered[p][t] = 1
              /\ \A j \in 1..2 : maps[ports[p][j].counts] = (0 :> 1 @@ 1 :> 1)

\* ------------------------------------------------------------- C13
\* C13 (counter map as the merge uses it): whatever sequence of
\* update(timestamp, delta) calls an input's observer makes, the pairs a drain
\* pops sum, per timestamp, to the algebraic sum of the deltas given for it;
\* a timestamp whose net is zero is never popped, and no shared counter map and
\* no consumed or produced report ever holds a zero delta.
DeltaSum(id, t) ==
    LET calls == {j \in 1..Len(applied) : applied[j].counts = id /\ applied[j].key = t}
    IN  SumOver(calls, [j \in calls |-> applied[j].val])

NonZero(m) == \A k \in DOMAIN m : m[k] # 0

C13_Sums ==
    \A gk \in MergeScopes : \A i \in Inputs(gk) : \A t \in Timestamps :
        Consumed(gk, i, t) + Pending(gk, i, t) = DeltaSum(Scope(gk).consumed[i], t)

C13_NoZero ==
    /\ \A id \in 1..Len(maps) :
          /\ NonZero(maps[id])
          /\ pop(maps[id]).some => pop(maps[id]).val # 0
    /\ \A gk \in MergeScopes :
          /\ \A i \in Inputs(gk) : NonZero(messages_consumed[gk[1]][gk[2]][i])
          /\ NonZero(messages_produced[gk[1]][gk[2]][1])

C13_Drain ==
    \A gk \in MergeScopes :
        PullStep(gk) =>
            /\ \A i \in Inputs(gk) : \A t \in Timestamps :
                  /\ Consumed(gk, i, t)' = DeltaSum(Scope(gk).consumed[i], t)
                  /\ Pending(gk, i, t)' = 0
            /\ last'.n = Cardinality({it \in Inputs(gk) \X Timestamps :
                                          Pending(gk, it[1], it[2]) # 0})

C13_CounterMap == [](C13_Sums /\ C13_NoZero) /\ [][C13_Drain]_vars

\* An input's map went +1 then -1 at one timestamp, +2 was recorded at another
\* place, and the drain that followed popped exactly one pair.
C13_Witness ==
    /\ last.op = "pull"
    /\ last.n = 1
    /\ Len(applied) = 3
    /\ \E j \in 1..3 :
          /\ applied[j].val = -1
          /\ applied[j].held = 1
          /\ DeltaSum(applied[j].counts, applied[j].key) = 0
    /\ \E j \in 1..3 : applied[j].val = 2 /\ applied[j].held = 0

\* ------------------------------------------------------------- hello views
\* The step is a call made by worker w.
HelloStep(w) == workers'[w] # workers[w]
AllReturned == \A w \in Workers : workers[w].pc = "returned"

\* ------------------------------------------------------------- C14
\* C14 (bracketed polls): in the worker loop of hello.rs the call before
\* every recv is pre_work and the call after it is post_work; pre_work is
\* called only as the first call of the loop or right after post_work, so
\* the calls alternate pre_work, recv, post_work, and a worker that has
\* returned made post_work its last call.
C14_Step ==
    \A w \in Workers :
        HelloStep(w) =>
            LET before == workers[w].call.op
                now == workers'[w].call.op
            IN  /\ now = "recv" <=> before = "pre_work"
                /\ now = "post_work" <=> before = "recv"
                /\ now = "pre_work" => before \in {"done", "post_work"}
                /\ workers'[w].pc = "returned" => now = "post_work"

C14_Closed == \A w \in Workers : workers[w].pc = "returned" => workers[w].call.op = "post_work"

C14_Bracketed == []C14_Closed /\ [][C14_Step]_vars

\* A worker has polled, received every message and returned.
C14_Witness ==
    \E w \in Workers :
        /\ workers[w].pc = "returned"
        /\ workers[w].received = Peers
        /\ workers[w].call.op = "post_work"
        /\ \E v \in Workers : workers[v].pc = "send"

\* ------------------------------------------------------------- C15
\* C15 (termination of hello): with Peers workers that each send one message
\* to every peer, itself included, before polling, fair scheduling and a
\* reliable transport, every worker eventually returns; a worker has returned
\* only with received = Peers and polls only while received < Peers, so the
\* count never exceeds Peers; a worker that has not returned can always make
\* its next call; and once all have returned nothing is left in a sender
\* buffer, in flight or in a receiver.
C15_Counts ==
    \A w \in Workers :
        /\ workers[w].received <= Peers
        /\ workers[w].pc = "returned" => workers[w].received = Peers
        /\ workers[w].pc \in {"pre_work", "recv"} => workers[w].received < Peers

C15_NoDeadlock == \A w \in Workers : workers[w].pc # "returned" => ENABLED Step(w)

C15_Drained ==
    AllReturned =>
        \A w, i \in Workers :
            /\ senders[w][i].buffer = <<>>
            /\ channels[w][i] = <<>>
            /\ receivers[w] = <<>>

C15_Safe == C15_Counts /\ C15_NoDeadlock /\ C15_Drained

C15_Termination == <>[]AllReturned /\ []C15_Safe

\* Every worker has returned, each having received Peers messages.
C15_Witness ==
    /\ AllReturned
    /\ \A w \in Workers : workers[w].received = Peers
    /\ \A w, i \in Workers : senders[w][i].sent = 1

\* ------------------------------------------------------------- C16
\* C16: each worker makes, for every peer i, exactly one send on senders[i]
\* and then exactly one done on senders[i]; it never sends on a sender after
\* its done, and all its sends and dones come before its first recv.
C16_Senders ==
    \A w, i \in Workers :
        /\ senders[w][i].done <= senders[w][i].sent
        /\ senders[w][i].sent <= 1
        /\ workers[w].pc \notin {"send", "done"} =>
              senders[w][i].sent = 1 /\ senders[w][i].done = 1

C16_Order ==
    \A w \in Workers :
        HelloStep(w) =>
            LET c == workers'[w].call
            IN  /\ c.op \in {"send", "done"} => c.i \in Workers
                /\ c.op = "send" =>
                      senders[w][c.i].sent = 0 /\ senders[w][c.i].done = 0
                /\ c.op = "done" =>
                      /\ senders[w][c.i].sent = 1 /\ senders[w][c.i].done = 0
                      /\ workers[w].call = [op |-> "send", i |-> c.i]
                /\ c.op \in {"pre_work", "recv", "post_work"} =>
                      \A i \in Workers :
                          senders[w][i].sent = 1 /\ senders[w][i].done = 1

C16_SendThenDone == []C16_Senders /\ [][C16_Order]_vars

\* A worker has just made its first recv, all its senders sent and done,
\* while another worker is still sending.
C16_Witness ==
    \E w, v \in Workers :
        /\ workers[w].call.op = "recv"
        /\ workers[w].received = 0
        /\ \A i \in Workers : senders[w][i].sent = 1 /\ senders[w][i].done = 1
        /\ workers[v].pc = "done"
        /\ senders[v][0].done = 0

\* ------------------------------------------------------------- C17
\* C17: a successful concatenate records every one of its edges in the graph
\* in which it registered the merge scope (the graph of the first stream), for
\* every vector of streams, so that no edge it records targets a scope index
\* that does not exist in the graph holding the edge.
C17_Step ==
    (last'.op = "concatenate" /\ pc' # "panicked") =>
        LET g0 == streams[last'.args[1]].graph
        IN  /\ \A g \in Graphs \ {g0} : NewEdges(g) = {}
            /\ \A g \in Graphs : \A j \in NewEdges(g) :
                  graphs'[g].edges[j].target.scope < Len(graphs'[g].scopes)

C17_SameGraph == [][C17_Step]_vars

\* ------------------------------------------------------------- C18
\* C18 (exclusive access to shared cells): in any sequence of concat,
\* concatenate, connect_to, send and pull_internal_progress calls of one
\* worker, no borrow_mut of a graph cell or of a shared counter-map cell is
\* requested while a borrow of that cell is held, so no borrow fails, and
\* every borrow is released when the call returns. The borrows are made:
\* concat makes three of the graph cells (add_scope, then one per connect_to),
\* concatenate over N streams N + 1, connect_to one, and a pull one per
\* entry popped plus one per input for the pop that finds the map empty.
C18_Free == ~cells.failed /\ cells.held = {}

C18_Requests ==
    /\ last'.op = "concat" => cells'.requests = 3
    /\ (last'.op = "concatenate" /\ pc' # "panicked") =>
          cells'.requests = Len(last'.args) + 1
    /\ last'.op = "connect_to" => cells'.requests = 1
    /\ last'.op = "pull" =>
          cells'.requests = last'.n + inputs(Scope(last'.args))
    /\ last'.op = "send" => cells'.requests >= 0

C18_Exclusive == []C18_Free /\ [][C18_Requests]_vars

\* A merge scope next to a directly wired consumer has been sent two
\* messages and a pull has popped both: four borrows of counter-map cells.
C18_Witness ==
    /\ last.op = "pull"
    /\ last.n = 2
    /\ cells.requests = 4
    /\ Len(maps) > MergeInputs
    /\ C18_Free

\* ------------------------------------------------------------- C19
\* C19 (concat is concatenate over two streams): from the same graphs and the
\* same two streams a and b, a.concat(b) and [a, b].concatenate() leave the
\* same state: one added scope with inputs() = 2, the edges from a's source to
\* ScopeInput(index, 0) and from b's source to ScopeInput(index, 1), one more
\* observer on each stream's port, and a returned stream with the source
\* ScopeOutput(index, 0). Sends and pulls depend on that state only, so the
\* two merge scopes report identically from then on.
SameWorld(r) ==
    /\ ~r.panic
    /\ graphs' = r.w.graphs
    /\ streams' = r.w.streams
    /\ ports' = r.w.ports
    /\ maps' = r.w.maps
    /\ last'.stream = r.ret
    /\ last'.log = r.w.log

C19_Shape ==
    LET a == last'.args[1]
        b == last'.args[2]
        g == streams[a].graph
        index == Len(graphs[g].scopes)
    IN  /\ Len(graphs'[g].scopes) = index + 1
        /\ inputs(graphs'[g].scopes[index + 1]) = 2
        /\ \E j \in NewEdges(streams[a].graph) :
               graphs'[streams[a].graph].edges[j] =
                   [source |-> streams[a].name, target |-> ScopeInput(index, 0)]
        /\ \E j \in NewEdges(streams[b].graph) :
               graphs'[streams[b].graph].edges[j] =
                   [source |-> streams[b].name, target |-> ScopeInput(index, 1)]
        /\ SumOver(Graphs, [h \in Graphs |-> Cardinality(NewEdges(h))]) = 2
        /\ Cardinality(NewObservers(streams[a].ports)) = 1
        /\ Cardinality(NewObservers(streams[b].ports)) = 1
        /\ streams'[last'.stream].name = ScopeOutput(index, 0)

C19_Step ==
    /\ last'.op = "concat" =>
          /\ SameWorld(concatenate(World, last'.args))
          /\ C19_Shape
    /\ (last'.op = "concatenate" /\ Len(last'.args) = 2) =>
          /\ SameWorld(concat(World, last'.args[1], last'.args[2]))
          /\ C19_Shape

C19_Equivalent == [][C19_Step]_vars

\* a.concat(b) has just merged the two streams of graph 1, the second first.
C19_Witness ==
    /\ last.op = "concat"
    /\ last.args = <<2, 1>>
    /\ inputs(graphs[1].scopes[3]) = 2
    /\ Len(graphs[1].edges) = 2
    /\ streams[last.stream].name = ScopeOutput(2, 0)

====
